---- MODULE Spec2Model ----
(***************************************************************************)
(* Model of the structural path resolver of move2kube,                     *)
(* internal/newparameterizer/common/utils.go: GetAll / GetRecurse, Get,    *)
(* Set, SetCreatingNew, GetSubKeys and getIndex.                           *)
(*                                                                         *)
(* Go strings are sequences of one-character strings, so that the regular  *)
(* expressions, the "[" + index + "]" concatenation and the splitting of a *)
(* key on dots are computed and not assumed.  A value of type interface{}  *)
(* is a record tagged by its dynamic type.  The []string of RT.Key is a    *)
(* slice header over a heap of backing arrays and RT.Matches is a          *)
(* reference into a heap of maps, so that sharing between the results of   *)
(* one call is visible.                                                    *)
(***************************************************************************)
EXTENDS Integers, Sequences, FiniteSets, TLC

VARIABLES
    config,      \* the tree handed to the entry points (mutated by Set, SetCreatingNew)
    key,         \* the key string of the call
    pc,          \* "idle" before the call, then the entry point that returned, then
                 \* "Changed" once the caller has changed a result of GetAll
    before,      \* the tree as it was when the call was made
    newValue,    \* the value handed to Set / SetCreatingNew
    results,     \* GetAll: the returned []RT
    err,         \* GetAll, Set, SetCreatingNew: the returned error ("nil" when none)
    keyArrs,     \* GetAll: heap of the backing arrays of the RT.Key slices
    matchMaps,   \* GetAll: heap of the map[string]string instances of RT.Matches
    matches0,    \* the contents of each result's Matches when GetAll returned
    mutated,     \* index of the result whose Matches the caller changed (0: none)
    getValue,    \* Get: the returned value
    getOk        \* Get: the returned ok

vars == <<config, key, pc, before, newValue, results, err, keyArrs, matchMaps,
          matches0, mutated, getValue, getOk>>

-----------------------------------------------------------------------------
(* Strings *)

Digits == {"0", "1", "2", "3", "4", "5", "6", "7", "8", "9"}

Letters ==
    {"a", "b", "c", "d", "e", "f", "g", "h", "i", "j", "k", "l", "m", "n", "o", "p",
     "q", "r", "s", "t", "u", "v", "w", "x", "y", "z",
     "A", "B", "C", "D", "E", "F", "G", "H", "I", "J", "K", "L", "M", "N", "O", "P",
     "Q", "R", "S", "T", "U", "V", "W", "X", "Y", "Z"}

\* the class \w of Go's regexp
WordChars == Letters \cup Digits \cup {"_"}

EmptyString == <<>>

\* strings.Contains(s, c) for a one-character c
Contains(s, c) == \E i \in 1..Len(s) : s[i] = c

\* length of the longest prefix of s made of word characters
RECURSIVE WordPrefixLen(_)
WordPrefixLen(s) ==
    IF s = <<>> \/ Head(s) \notin WordChars THEN 0 ELSE 1 + WordPrefixLen(Tail(s))

Drop(s, n) == SubSeq(s, n + 1, Len(s))

-----------------------------------------------------------------------------
(* Values of type interface{} *)

NilV == [k |-> "nil"]
StringV(s) == [k |-> "string", s |-> s]
IntV(n) == [k |-> "int", n |-> n]
BoolV(b) == [k |-> "bool", b |-> b]
MapV(m) == [k |-> "map", m |-> m]
SliceV(a) == [k |-> "slice", a |-> a]

\* mapT{}
EmptyMap == [x \in {} |-> NilV]

IsMap(v) == v.k = "map"
IsSlice(v) == v.k = "slice"
IsString(v) == v.k = "string"

\* m[k] = v on a Go map
MapSet(m, k, v) == [x \in DOMAIN m \cup {k} |-> IF x = k THEN v ELSE m[x]]

-----------------------------------------------------------------------------
(* The regular expressions and the classification of a sub key *)

\* arrayIndexRegex = ^\[(\d+)\]$
arrayIndexRegex(k) ==
    /\ Len(k) >= 3
    /\ k[1] = "["
    /\ k[Len(k)] = "]"
    /\ \A i \in 2..(Len(k) - 1) : k[i] \in Digits

\* the three submatches of  (\w+:)?(\w+)(=.+)?  on the whole of s, or ok = FALSE.
\* \w matches none of ":", "=", so the split is unique: the longest word prefix,
\* then ":" and a second word when the prefix is followed by ":", then nothing or
\* "=" and at least one character other than a newline.
WordAndValue(s) ==
    LET w == WordPrefixLen(s)
        rest == Drop(s, w)
    IN  IF w = 0 THEN [ok |-> FALSE, field |-> <<>>, value |-> <<>>]
        ELSE IF rest = <<>> THEN [ok |-> TRUE, field |-> SubSeq(s, 1, w), value |-> <<>>]
        ELSE IF /\ rest[1] = "="
                /\ Len(rest) >= 2
                /\ \A i \in 2..Len(rest) : rest[i] # "\n"
             THEN [ok |-> TRUE, field |-> SubSeq(s, 1, w), value |-> rest]
        ELSE [ok |-> FALSE, field |-> <<>>, value |-> <<>>]

\* complexSubKeyRegex = ^\[(\w+:)?(\w+)(=.+)?\]$ : the submatches 1, 2, 3
complexSubKeyRegex(k) ==
    IF ~(Len(k) >= 3 /\ k[1] = "[" /\ k[Len(k)] = "]")
    THEN [ok |-> FALSE, name |-> <<>>, field |-> <<>>, value |-> <<>>]
    ELSE LET inner == SubSeq(k, 2, Len(k) - 1)
             w == WordPrefixLen(inner)
             named == w >= 1 /\ Len(inner) > w /\ inner[w + 1] = ":"
             tail == IF named THEN WordAndValue(Drop(inner, w + 1)) ELSE WordAndValue(inner)
         IN  [ok |-> tail.ok,
              name |-> IF named /\ tail.ok THEN SubSeq(inner, 1, w + 1) ELSE <<>>,
              field |-> tail.field,
              value |-> tail.value]

\* the test when the index form is left out
isNormalNoIndex(k) == ~Contains(k, "[")

isNormal(k) == ~Contains(k, "[") \/ arrayIndexRegex(k)

\* value of a decimal digit
DigitValue(c) ==
    CASE c = "0" -> 0 [] c = "1" -> 1 [] c = "2" -> 2 [] c = "3" -> 3 [] c = "4" -> 4
      [] c = "5" -> 5 [] c = "6" -> 6 [] c = "7" -> 7 [] c = "8" -> 8 [] c = "9" -> 9

\* strconv.ParseInt(s, base, 0) on a non-empty string of digits of that base
RECURSIVE ParseDigits(_, _)
ParseDigits(s, base) ==
    IF s = <<>> THEN 0
    ELSE ParseDigits(SubSeq(s, 1, Len(s) - 1), base) * base + DigitValue(s[Len(s)])

\* cast.ToIntE on a string of digits: strconv.ParseInt(s, 0, 0), where a leading
\* "0" followed by more digits selects base 8 and the digits 8, 9 are then an error
ToIntE(s) ==
    IF Len(s) >= 2 /\ s[1] = "0"
    THEN IF \E i \in 2..Len(s) : s[i] \in {"8", "9"}
         THEN [ok |-> FALSE, n |-> 0]
         ELSE [ok |-> TRUE, n |-> ParseDigits(Drop(s, 1), 8)]
    ELSE [ok |-> TRUE, n |-> ParseDigits(s, 10)]

\* the index when the digits are taken to count from one
getIndexFromOne(k) ==
    IF ~arrayIndexRegex(k) THEN [ok |-> FALSE, idx |-> 0]
    ELSE LET r == ToIntE(SubSeq(k, 2, Len(k) - 1))
         IN  IF ~r.ok \/ r.n < 1 THEN [ok |-> FALSE, idx |-> 0]
             ELSE [ok |-> TRUE, idx |-> r.n - 1]

getIndex(k) ==
    IF ~arrayIndexRegex(k) THEN [ok |-> FALSE, idx |-> 0]
    ELSE LET r == ToIntE(SubSeq(k, 2, Len(k) - 1))
         IN  IF ~r.ok \/ r.n < 0 THEN [ok |-> FALSE, idx |-> 0]
             ELSE [ok |-> TRUE, idx |-> r.n]

\* cast.ToString of a non-negative int
RECURSIVE castToString(_)
castToString(n) ==
    LET d == CHOOSE c \in Digits : DigitValue(c) = n % 10
    IN  IF n < 10 THEN <<d>> ELSE castToString(n \div 10) \o <<d>>

-----------------------------------------------------------------------------
(* GetSubKeys: split on the dots that are outside double quotes, drop the    *)
(* empty pieces, strip one layer of surrounding quotes.                       *)

\* the pieces of s, cur being the piece under construction
RECURSIVE SplitOnDotExpectInsideQuotes(_, _, _)
SplitOnDotExpectInsideQuotes(s, cur, inQuotes) ==
    IF s = <<>> THEN (IF cur = <<>> THEN <<>> ELSE <<cur>>)
    ELSE IF Head(s) = "." /\ ~inQuotes
         THEN (IF cur = <<>> THEN <<>> ELSE <<cur>>)
              \o SplitOnDotExpectInsideQuotes(Tail(s), <<>>, FALSE)
    ELSE IF Head(s) = "\""
         THEN SplitOnDotExpectInsideQuotes(Tail(s), Append(cur, Head(s)), ~inQuotes)
    ELSE SplitOnDotExpectInsideQuotes(Tail(s), Append(cur, Head(s)), inQuotes)

StripQuotes(s) ==
    IF Len(s) >= 2 /\ s[1] = "\"" /\ s[Len(s)] = "\"" THEN SubSeq(s, 2, Len(s) - 1) ELSE s

GetSubKeys(k) ==
    LET pieces == SplitOnDotExpectInsideQuotes(k, <<>>, FALSE)
    IN  [i \in 1..Len(pieces) |-> StripQuotes(pieces[i])]

-----------------------------------------------------------------------------
(* Slices of strings (RT.Key) over the heap of backing arrays *)

\* a nil []string
NilSlice == [ptr |-> 0, len |-> 0, cap |-> 0]

\* the elements s[0:len] of the slice s
SliceElems(arrs, s) == IF s.ptr = 0 THEN <<>> ELSE SubSeq(arrs[s.ptr], 1, s.len)

\* capacity of the array append allocates when the old one is full (the runtime
\* doubles the capacity of a small slice)
growCap(oldCap, needed) == IF needed > oldCap + oldCap THEN needed ELSE oldCap + oldCap

\* append(s, x): in place when the capacity allows, else into a new backing array
AppendKey(arrs, s, x) ==
    IF s.len < s.cap
    THEN [arrs |-> [arrs EXCEPT ![s.ptr][s.len + 1] = x],
          s |-> [s EXCEPT !.len = s.len + 1]]
    ELSE LET c == growCap(s.cap, s.len + 1)
             old == SliceElems(arrs, s)
             new == [i \in 1..c |-> IF i <= s.len THEN old[i]
                                    ELSE IF i = s.len + 1 THEN x ELSE EmptyString]
         IN  [arrs |-> Append(arrs, new),
              s |-> [ptr |-> Len(arrs) + 1, len |-> s.len + 1, cap |-> c]]

\* the slice a result keeps when the copy of its key is left out
LeafKeyShared(arrs, s) == [arrs |-> arrs, s |-> s]

\* kc := make([]string, len(currentResult.Key)); copy(kc, currentResult.Key)
LeafKeyCopy(arrs, s) ==
    [arrs |-> Append(arrs, SliceElems(arrs, s)),
     s |-> [ptr |-> Len(arrs) + 1, len |-> s.len, cap |-> s.len]]

-----------------------------------------------------------------------------
(* map[string]string (RT.Matches) over the heap of maps; the reference 0 is nil *)

NoMatches == [x \in {} |-> EmptyString]

\* the map the branch writes to when it writes to orig itself
BranchMatchesShared(maps, orig, matchName, actualMatchValue) ==
    [maps |-> [maps EXCEPT ![orig] = MapSet(maps[orig], matchName, actualMatchValue)],
     ref |-> orig]

\* copy := map[string]string{}; for k, v := range orig { copy[k] = v };
\* copy[matchName] = actualMatchValue
BranchMatches(maps, orig, matchName, actualMatchValue) ==
    [maps |-> Append(maps, MapSet(maps[orig], matchName, actualMatchValue)),
     ref |-> Len(maps) + 1]

-----------------------------------------------------------------------------
(* GetAll / GetRecurse *)

\* RT{}
ZeroRT == [Key |-> NilSlice, Value |-> NilV, Matches |-> 0]

\* the outcome when a failing call also drops the results appended so far
FailDroppingResults(st, e) == [st EXCEPT !.err = e, !.results = <<>>]

\* return fmt.Errorf(...): the heaps and the results so far, threaded through the
\* recursion, with the error set
Fail(st, e) == [st EXCEPT !.err = e]

\* the parts when the "=" is left on the value
PredicatePartsUntrimmed(subKey) ==
    LET sub == complexSubKeyRegex(subKey)
    IN  [matchName |-> IF sub.name = EmptyString THEN sub.field
                       ELSE SubSeq(sub.name, 1, Len(sub.name) - 1),
         matchKey |-> sub.field,
         matchValue |-> sub.value]

\* the parts when the ":" is left on the name
PredicatePartsNameUntrimmed(subKey) ==
    LET sub == complexSubKeyRegex(subKey)
    IN  [matchName |-> IF sub.name = EmptyString THEN sub.field ELSE sub.name,
         matchKey |-> sub.field,
         matchValue |-> IF sub.value # EmptyString THEN Drop(sub.value, 1) ELSE EmptyString]

\* the parts of a sub key like [containerName:name=nginx]
\* matchName, matchKey, matchValue := subMatches[0][1], subMatches[0][2], subMatches[0][3]
PredicateParts(subKey) ==
    LET sub == complexSubKeyRegex(subKey)
    IN  [matchName |-> IF sub.name = EmptyString THEN sub.field
                       ELSE SubSeq(sub.name, 1, Len(sub.name) - 1),
         matchKey |-> sub.field,
         matchValue |-> IF sub.value # EmptyString THEN Drop(sub.value, 1) ELSE EmptyString]

\* the field value through its string form, whatever its type
FieldStringCast(v) ==
    [ok |-> TRUE,
     s |-> IF v.k = "string" THEN v.s
           ELSE IF v.k = "int" THEN castToString(v.n)
           ELSE IF v.k = "bool" THEN (IF v.b THEN <<"t", "r", "u", "e">>
                                      ELSE <<"f", "a", "l", "s", "e">>)
           ELSE EmptyString]

\* actualMatchValue, ok := actualMatchValueI.(string)
FieldString(v) == [ok |-> IsString(v), s |-> IF IsString(v) THEN v.s ELSE EmptyString]

\* the loop going on to the next element past an element that is no object
ElemNotObjectSkipped(st, rest) == rest

\* valueMap, ok := valueMapI.(mapT); if !ok { return fmt.Errorf(...) }
ElemNotObject(st, rest) == Fail(st, "ElemNotObject")

\* the outcome when a sub key that matches neither expression is passed over
InvalidSubKeyIgnored(st) == st

\* if !complexSubKeyRegex.MatchString(subKey) { return fmt.Errorf(...) }
InvalidSubKey(st) == Fail(st, "InvalidSubKey")

\* the outcome when a slice without elements is reported like a value that is no slice
EmptySliceFails(st) == Fail(st, "NotASlice")

\* if len(valueArr) == 0 { return nil }
EmptySlice(st) == st

RECURSIVE GetRecurse(_, _, _, _, _)
RECURSIVE PredicateLoop(_, _, _, _, _, _, _)

\* for arrIdx, valueMapI := range valueArr { ... }  from the element arrIdx (0-based) on
PredicateLoop(subKeys, subKeyIdx, valueArr, arrIdx, p, currentResult, st) ==
    IF arrIdx >= Len(valueArr) THEN st
    ELSE
    LET valueMapI == valueArr[arrIdx + 1]
        nextIter == PredicateLoop(subKeys, subKeyIdx, valueArr, arrIdx + 1, p, currentResult, st)
    IN  IF ~IsMap(valueMapI)
        THEN ElemNotObject(st, nextIter)
        ELSE IF p.matchKey \notin DOMAIN valueMapI.m THEN nextIter
        ELSE
        LET actual == FieldString(valueMapI.m[p.matchKey])
        IN  IF ~actual.ok THEN Fail(st, "FieldNotString")
            ELSE IF p.matchValue # EmptyString /\ p.matchValue # actual.s THEN nextIter
            ELSE
            LET \* if currentResult.Matches == nil { currentResult.Matches = map[string]string{} }
                maps1 == IF currentResult.Matches = 0 THEN Append(st.maps, NoMatches)
                         ELSE st.maps
                orig == IF currentResult.Matches = 0 THEN Len(st.maps) + 1
                        ELSE currentResult.Matches
                br == BranchMatches(maps1, orig, p.matchName, actual.s)
                origKey == currentResult.Key
                ap == AppendKey(st.arrs, origKey, <<"[">> \o castToString(arrIdx) \o <<"]">>)
                branch == [currentResult EXCEPT !.Matches = br.ref, !.Key = ap.s]
                st1 == GetRecurse(subKeys, subKeyIdx + 1, valueArr[arrIdx + 1], branch,
                                  [st EXCEPT !.maps = br.maps, !.arrs = ap.arrs])
            IN  IF st1.err # "nil" THEN st1
                ELSE PredicateLoop(subKeys, subKeyIdx, valueArr, arrIdx + 1, p,
                                   [currentResult EXCEPT !.Matches = orig, !.Key = origKey],
                                   st1)

GetRecurse(subKeys, subKeyIdx, value, currentResult, st) ==
    IF subKeyIdx >= Len(subKeys)
    THEN LET kc == LeafKeyCopy(st.arrs, currentResult.Key)
         IN  [st EXCEPT !.arrs = kc.arrs,
                        !.results = Append(st.results,
                            [currentResult EXCEPT !.Key = kc.s, !.Value = value])]
    ELSE
    LET subKey == subKeys[subKeyIdx + 1]
    IN  IF isNormal(subKey)
        THEN IF IsMap(value)
             THEN IF subKey \in DOMAIN value.m
                  THEN LET ap == AppendKey(st.arrs, currentResult.Key, subKey)
                       IN  GetRecurse(subKeys, subKeyIdx + 1, value.m[subKey],
                                      [currentResult EXCEPT !.Key = ap.s],
                                      [st EXCEPT !.arrs = ap.arrs])
                  ELSE Fail(st, "MissingSubKey")
             ELSE IF IsSlice(value)
             THEN LET ix == getIndex(subKey)
                  IN  IF ~ix.ok THEN Fail(st, "NotAnIndex")
                      ELSE IF ix.idx >= Len(value.a) THEN Fail(st, "IndexOutOfRange")
                      ELSE LET ap == AppendKey(st.arrs, currentResult.Key, subKey)
                           IN  GetRecurse(subKeys, subKeyIdx + 1, value.a[ix.idx + 1],
                                          [currentResult EXCEPT !.Key = ap.s],
                                          [st EXCEPT !.arrs = ap.arrs])
             ELSE Fail(st, "NotMapOrSlice")
        ELSE IF ~complexSubKeyRegex(subKey).ok THEN InvalidSubKey(st)
        ELSE IF ~IsSlice(value) THEN Fail(st, "NotASlice")
        ELSE IF Len(value.a) = 0 THEN EmptySlice(st)
        ELSE PredicateLoop(subKeys, subKeyIdx, value.a, 0, PredicateParts(subKey),
                           currentResult, st)

\* results := []RT{}; err := GetRecurse(subKeys, 0, resource, RT{}, &results); return results, err
GetAll(k, resource) ==
    GetRecurse(GetSubKeys(k), 0, resource, ZeroRT,
               [results |-> <<>>, arrs |-> <<>>, maps |-> <<>>, err |-> "nil"])

-----------------------------------------------------------------------------
(* Get *)

RECURSIVE GetWalk(_, _, _)
\* the loop of Get from the sub key i (1-based) on, value being the node reached
GetWalk(subKeys, i, value) ==
    IF i > Len(subKeys) THEN [value |-> value, ok |-> TRUE]
    ELSE
    LET subKey == subKeys[i]
    IN  IF IsMap(value)
        THEN IF subKey \in DOMAIN value.m
             THEN GetWalk(subKeys, i + 1, value.m[subKey])
             ELSE [value |-> NilV, ok |-> FALSE]
        ELSE IF IsSlice(value)
                /\ getIndex(subKey).ok /\ getIndex(subKey).idx < Len(value.a)
             THEN GetWalk(subKeys, i + 1, value.a[getIndex(subKey).idx + 1])
        ELSE [value |-> value, ok |-> FALSE]

\* Get when a key without sub keys is refused
GetRejectingEmpty(k, cfg) ==
    IF Len(GetSubKeys(k)) = 0 THEN [value |-> NilV, ok |-> FALSE]
    ELSE GetWalk(GetSubKeys(k), 1, cfg)

Get(k, cfg) == GetWalk(GetSubKeys(k), 1, cfg)

-----------------------------------------------------------------------------
(* Set *)

\* the terminal map assignment when the presence of the sub key is not checked
SetTerminalMapUnchecked(valueMap, subKey, v) ==
    [err |-> "nil", value |-> MapV(MapSet(valueMap, subKey, v))]

\* if _, ok := valueMap[subKey]; ok { valueMap[subKey] = newValue; return nil }
SetTerminalMap(valueMap, subKey, v) ==
    IF subKey \in DOMAIN valueMap
    THEN [err |-> "nil", value |-> MapV(MapSet(valueMap, subKey, v))]
    ELSE [err |-> "MissingSubKey", value |-> MapV(valueMap)]

\* the terminal slice assignment when it writes to the first element
SetTerminalSliceFirst(valueArr, subKey, v) ==
    LET ix == getIndex(subKey)
    IN  IF ix.ok /\ ix.idx < Len(valueArr)
        THEN [err |-> "nil", value |-> SliceV([valueArr EXCEPT ![1] = v])]
        ELSE [err |-> "NotAValidIndex", value |-> SliceV(valueArr)]

\* idx, ok := getIndex(subKey); if ok && idx < len(valueArr) { valueArr[idx] = newValue }
SetTerminalSlice(valueArr, subKey, v) ==
    LET ix == getIndex(subKey)
    IN  IF ix.ok /\ ix.idx < Len(valueArr)
        THEN [err |-> "nil", value |-> SliceV([valueArr EXCEPT ![ix.idx + 1] = v])]
        ELSE [err |-> "NotAValidIndex", value |-> SliceV(valueArr)]

RECURSIVE SetWalk(_, _, _, _)
\* Set from the sub key i (1-based) on, value being the node reached: the error and
\* the node as the call leaves it (maps and slices are written through references)
SetWalk(subKeys, i, value, v) ==
    LET subKey == subKeys[i]
    IN  IF i < Len(subKeys)
        THEN IF IsMap(value)
             THEN IF subKey \in DOMAIN value.m
                  THEN LET r == SetWalk(subKeys, i + 1, value.m[subKey], v)
                       IN  [err |-> r.err, value |-> MapV([value.m EXCEPT ![subKey] = r.value])]
                  ELSE [err |-> "MissingSubKey", value |-> value]
             ELSE IF IsSlice(value)
             THEN LET ix == getIndex(subKey)
                  IN  IF ix.ok /\ ix.idx < Len(value.a)
                      THEN LET r == SetWalk(subKeys, i + 1, value.a[ix.idx + 1], v)
                           IN  [err |-> r.err,
                                value |-> SliceV([value.a EXCEPT ![ix.idx + 1] = r.value])]
                      ELSE [err |-> "NotAValidIndex", value |-> value]
             ELSE [err |-> "ReachedScalar", value |-> value]
        ELSE IF IsMap(value) THEN SetTerminalMap(value.m, subKey, v)
        ELSE IF IsSlice(value) THEN SetTerminalSlice(value.a, subKey, v)
        ELSE [err |-> "NotMapOrSlice", value |-> value]

Set(k, v, cfg) ==
    IF k = EmptyString THEN [err |-> "EmptyKey", value |-> cfg]
    ELSE IF Len(GetSubKeys(k)) = 0 THEN [err |-> "NoSubKeys", value |-> cfg]
    ELSE SetWalk(GetSubKeys(k), 1, cfg, v)

-----------------------------------------------------------------------------
(* SetCreatingNew *)

\* the map the walk goes on with when it is a new one at every sub key
IntermediateAlwaysNew(cfgMap, subKey) == EmptyMap

\* value, ok = config[subKey]: the map the walk goes on with, a new mapT{} when the
\* sub key is absent or holds no map
Intermediate(cfgMap, subKey) ==
    IF subKey \in DOMAIN cfgMap /\ IsMap(cfgMap[subKey]) THEN cfgMap[subKey].m ELSE EmptyMap

\* the last assignment when a value already present is kept
AssignLastIfAbsent(cfgMap, lastSubKey, v) ==
    IF lastSubKey \in DOMAIN cfgMap THEN cfgMap ELSE MapSet(cfgMap, lastSubKey, v)

\* config[lastSubKey] = newValue
AssignLast(cfgMap, lastSubKey, v) == MapSet(cfgMap, lastSubKey, v)

RECURSIVE SetCreatingNewWalk(_, _, _, _)
\* SetCreatingNew from the sub key i (1-based) on, cfgMap being the map reached: the
\* map as the call leaves it
SetCreatingNewWalk(subKeys, i, cfgMap, v) ==
    IF i < Len(subKeys)
    THEN MapSet(cfgMap, subKeys[i],
                MapV(SetCreatingNewWalk(subKeys, i + 1, Intermediate(cfgMap, subKeys[i]), v)))
    ELSE AssignLast(cfgMap, subKeys[i], v)

\* SetCreatingNew when a value that is no map is not replaced but reported
SetCreatingNewStrict(k, v, cfg) ==
    IF k = EmptyString THEN [err |-> "EmptyKey", value |-> cfg]
    ELSE IF Len(GetSubKeys(k)) = 0 THEN [err |-> "NoSubKeys", value |-> cfg]
    ELSE IF \E j \in 1..(Len(GetSubKeys(k)) - 1) :
               LET g == GetWalk(SubSeq(GetSubKeys(k), 1, j), 1, cfg)
               IN  g.ok /\ ~IsMap(g.value)
         THEN [err |-> "NotAMap", value |-> cfg]
    ELSE [err |-> "nil", value |-> MapV(SetCreatingNewWalk(GetSubKeys(k), 1, cfg.m, v))]

SetCreatingNew(k, v, cfg) ==
    IF k = EmptyString THEN [err |-> "EmptyKey", value |-> cfg]
    ELSE IF Len(GetSubKeys(k)) = 0 THEN [err |-> "NoSubKeys", value |-> cfg]
    ELSE [err |-> "nil", value |-> MapV(SetCreatingNewWalk(GetSubKeys(k), 1, cfg.m, v))]

-----------------------------------------------------------------------------
(* The inputs: trees as a parsed YAML document gives them, and key strings *)

MaxElems == 2      \* longest slice of a generated tree
MaxSubKeys == 3    \* most sub keys of a generated plain key

KeyA == <<"a">>
KeyB == <<"b">>
KeyL == <<"l">>
KeyR == <<"r">>
StrX == <<"x">>
StrY == <<"y">>
StrV == <<"v">>
Idx0 == <<"[", "0", "]">>
Idx1 == <<"[", "1", "]">>

\* all the sequences of elements of S of a length from lo to hi
SeqsOf(S, lo, hi) == UNION {[1..n -> S] : n \in lo..hi}

\* all the maps with keys among K and values in V
MapsOf(K, V) == UNION {[D -> V] : D \in SUBSET K}

\* s1 "." s2 "." ... of the sub keys
RECURSIVE Join(_)
Join(subKeys) ==
    IF subKeys = <<>> THEN <<>>
    ELSE IF Len(subKeys) = 1 THEN subKeys[1]
    ELSE subKeys[1] \o <<".">> \o Join(Tail(subKeys))

Scalars == {StringV(StrX), IntV(1)}

\* plain documents: scalars, maps and slices nested twice; "[0]" is also a map key
Nested ==
    Scalars
    \cup {MapV(m) : m \in MapsOf({KeyA, Idx0}, Scalars)}
    \cup {SliceV(s) : s \in SeqsOf(Scalars, 0, MaxElems)}

PlainTrees ==
    {MapV(m) : m \in MapsOf({KeyA}, Nested) \cup
                     {MapSet(m1, KeyB, StringV(StrY)) : m1 \in MapsOf({KeyA}, Nested)}}
    \cup {SliceV(s) : s \in SeqsOf({StringV(StrX), MapV(KeyA :> IntV(1)), SliceV(<<StringV(StrX)>>)},
                                   0, MaxElems)}

PlainSubKeys == {KeyA, Idx0, Idx1}

\* sub keys with a "[" that are neither an index nor a predicate: [a=] and [0
InvalidSubKeys == {<<"[", "a", "=", "]">>, <<"[", "0">>}

\* with the key "." that, like the empty key, has no sub key
PlainKeys ==
    {Join(p) : p \in SeqsOf(PlainSubKeys, 0, MaxSubKeys)}
    \cup {<<".">>}
    \cup {Join(<<inv>>) : inv \in InvalidSubKeys}
    \cup {Join(<<KeyA, inv>>) : inv \in InvalidSubKeys}

\* documents with a slice of objects under r, each object with a field a and a
\* slice of objects under l
InnerElems == {MapV(KeyA :> StringV(StrX)), MapV(KeyA :> StringV(StrY))}

\* with an object without the field, a field that is no string, an element that is
\* no object
InnerSlices ==
    SeqsOf(InnerElems, 0, MaxElems)
    \cup {<<MapV(KeyB :> StringV(StrX)), MapV(KeyA :> StringV(StrX))>>,
          <<MapV(KeyA :> IntV(1))>>,
          <<MapV(KeyA :> StringV(StrX)), MapV(KeyA :> BoolV(TRUE))>>,
          <<MapV(KeyA :> StringV(StrX)), StringV(StrX)>>,
          <<SliceV(<<>>), MapV(KeyA :> StringV(StrX))>>}

OuterElems(inner) ==
    {MapV(KeyA :> StringV(StrX) @@ KeyL :> SliceV(inner)),
     MapV(KeyA :> StringV(StrY) @@ KeyL :> SliceV(inner)),
     MapV(KeyA :> StringV(StrX))}

ObjectTrees ==
    {MapV(KeyR :> SliceV(outer)) :
        outer \in UNION {SeqsOf(OuterElems(inner), 0, MaxElems) : inner \in InnerSlices}}

Predicates ==
    { <<"[", "a", "]">>,
      <<"[", "a", "=", "x", "]">>,
      <<"[", "n", ":", "a", "]">>,
      <<"[", "n", ":", "a", "=", "y", "]">> }

FirstPredicates == {<<"[", "a", "=", "x", "]">>, <<"[", "n", ":", "a", "]">>}

ObjectKeys ==
    {Join(<<KeyR, p1>> \o suffix) :
        p1 \in FirstPredicates \cup {Idx0},
        suffix \in {<<>>, <<KeyA>>, <<KeyL>>}
                   \cup {<<KeyL, p2>> : p2 \in Predicates}
                   \cup {<<KeyL, p2, KeyA>> : p2 \in Predicates}
                   \cup {<<inv>> : inv \in InvalidSubKeys}
                   \cup {<<KeyL, <<"[", "a", "=", "]">> >>}}

Inputs == (PlainTrees \X PlainKeys) \cup (ObjectTrees \X ObjectKeys)

NewValues == {StringV(StrV), MapV(EmptyMap)}

-----------------------------------------------------------------------------
(* The calls *)

\* the contents of the Matches of every result
MatchesOf(maps, rs) ==
    [i \in 1..Len(rs) |-> IF rs[i].Matches = 0 THEN NoMatches ELSE maps[rs[i].Matches]]

\* the concrete key (the elements of the Key slice) of a result
KeyOf(arrs, rt) == SliceElems(arrs, rt.Key)

Init ==
    /\ \E in \in Inputs : config = in[1] /\ key = in[2]
    /\ pc = "idle"
    /\ before = config
    /\ newValue = NilV
    /\ results = <<>>
    /\ err = "nil"
    /\ keyArrs = <<>>
    /\ matchMaps = <<>>
    /\ matches0 = <<>>
    /\ mutated = 0
    /\ getValue = NilV
    /\ getOk = FALSE

CallGetAll ==
    /\ pc = "idle"
    /\ LET st == GetAll(key, config)
       IN  /\ results' = st.results
           /\ err' = st.err
           /\ keyArrs' = st.arrs
           /\ matchMaps' = st.maps
           /\ matches0' = MatchesOf(st.maps, st.results)
    /\ pc' = "GetAll"
    /\ UNCHANGED <<config, key, before, newValue, mutated, getValue, getOk>>

CallGet ==
    /\ pc = "idle"
    /\ LET g == Get(key, config)
       IN  /\ getValue' = g.value
           /\ getOk' = g.ok
    /\ pc' = "Get"
    /\ UNCHANGED <<config, key, before, newValue, results, err, keyArrs, matchMaps,
                   matches0, mutated>>

CallSet ==
    /\ pc = "idle"
    /\ \E nv \in NewValues :
          /\ newValue' = nv
          /\ LET s == Set(key, nv, config)
             IN  /\ err' = s.err
                 /\ config' = s.value
    /\ pc' = "Set"
    /\ UNCHANGED <<key, before, results, keyArrs, matchMaps, matches0, mutated,
                   getValue, getOk>>

\* config is a mapT
CallSetCreatingNew ==
    /\ pc = "idle"
    /\ IsMap(config)
    /\ \E nv \in NewValues :
          /\ newValue' = nv
          /\ LET s == SetCreatingNew(key, nv, config)
             IN  /\ err' = s.err
                 /\ config' = s.value
    /\ pc' = "SetCreatingNew"
    /\ UNCHANGED <<key, before, results, keyArrs, matchMaps, matches0, mutated,
                   getValue, getOk>>

\* the caller of GetAll adds, changes or deletes an entry of one result's Matches
ChangeMatches ==
    /\ pc = "GetAll"
    /\ \E i \in 1..Len(results) :
          /\ results[i].Matches # 0
          /\ mutated' = i
          /\ LET m == matchMaps[results[i].Matches]
             IN  \E m2 \in {MapSet(m, StrV, StrV)}
                           \cup {MapSet(m, k, StrV) : k \in DOMAIN m}
                           \cup {[k2 \in DOMAIN m \ {k} |-> m[k2]] : k \in DOMAIN m} :
                    matchMaps' = [matchMaps EXCEPT ![results[i].Matches] = m2]
    /\ pc' = "Changed"
    /\ UNCHANGED <<config, key, before, newValue, results, err, keyArrs, matches0,
                   getValue, getOk>>

Next == CallGetAll \/ CallGet \/ CallSet \/ CallSetCreatingNew \/ ChangeMatches

Spec == Init /\ [][Next]_vars

-----------------------------------------------------------------------------
(* What the claims are stated with *)

subKeysOf(k) == GetSubKeys(k)

\* the kind of a segment: Key, Index, Predicate or Invalid
SegKind(seg) ==
    IF ~Contains(seg, "[") THEN "Key"
    ELSE IF arrayIndexRegex(seg) THEN "Index"
    ELSE IF complexSubKeyRegex(seg).ok THEN "Predicate"
    ELSE "Invalid"

IsPredicateFree(segs) == \A i \in 1..Len(segs) : SegKind(segs[i]) \in {"Key", "Index"}

\* position of the first c in s, Len(s) + 1 when there is none
FirstPos(s, c) ==
    IF \E i \in 1..Len(s) : s[i] = c
    THEN CHOOSE i \in 1..Len(s) : s[i] = c /\ \A j \in 1..(i - 1) : s[j] # c
    ELSE Len(s) + 1

\* [name:field=value] read by its grammar: the capture name (the field when no name
\* is given), the field, the value (empty when none is given)
PredicateOf(seg) ==
    LET inner == SubSeq(seg, 2, Len(seg) - 1)
        eq == FirstPos(inner, "=")
        head == SubSeq(inner, 1, eq - 1)
        colon == FirstPos(head, ":")
        field == IF colon <= Len(head) THEN Drop(head, colon) ELSE head
    IN  [capture |-> IF colon <= Len(head) THEN SubSeq(head, 1, colon - 1) ELSE field,
         field |-> field,
         value |-> Drop(inner, eq)]

Failure(e) == [ok |-> FALSE, e |-> e, value |-> NilV, path |-> <<>>, binds |-> NoMatches]

\* Every branch of the walk of segs from segment i on, in the order of the elements,
\* none of them cut short by the failure of another: a leaf with its value, concrete
\* path and bindings, or a failure.  On a Mapping any segment is looked up as a key;
\* on a Sequence a segment must be an index below the length.  skipNonObjects: an
\* element of a predicate's Sequence that is no Mapping yields no branch (else a
\* failure); stringForm: the field of an element counts through its string form
\* whatever its type (else a field that is no string is a failure).
RECURSIVE Outcomes(_, _, _, _, _, _, _)
RECURSIVE ElemOutcomes(_, _, _, _, _, _, _, _)

ElemOutcomes(segs, i, arr, n, path, binds, skipNonObjects, stringForm) ==
    IF n > Len(arr) THEN <<>>
    ELSE
    LET el == arr[n]
        p == PredicateOf(segs[i])
        rest == ElemOutcomes(segs, i, arr, n + 1, path, binds, skipNonObjects, stringForm)
        this ==
            IF ~IsMap(el)
            THEN (IF skipNonObjects THEN <<>> ELSE <<Failure("ElemNotObject")>>)
            ELSE IF p.field \notin DOMAIN el.m THEN <<>>
            ELSE LET fv == el.m[p.field]
                     str == IF stringForm THEN FieldStringCast(fv).s
                            ELSE IF IsString(fv) THEN fv.s ELSE EmptyString
                 IN  IF ~stringForm /\ ~IsString(fv) THEN <<Failure("FieldNotString")>>
                     ELSE IF p.value # EmptyString /\ p.value # str THEN <<>>
                     ELSE Outcomes(segs, i + 1, el,
                                   Append(path, <<"[">> \o castToString(n - 1) \o <<"]">>),
                                   MapSet(binds, p.capture, str),
                                   skipNonObjects, stringForm)
    IN  this \o rest

Outcomes(segs, i, value, path, binds, skipNonObjects, stringForm) ==
    IF i > Len(segs)
    THEN <<[ok |-> TRUE, e |-> "nil", value |-> value, path |-> path, binds |-> binds]>>
    ELSE
    LET seg == segs[i]
    IN  IF SegKind(seg) \in {"Key", "Index"}
        THEN IF IsMap(value)
             THEN IF seg \in DOMAIN value.m
                  THEN Outcomes(segs, i + 1, value.m[seg], Append(path, seg), binds,
                                skipNonObjects, stringForm)
                  ELSE <<Failure("MissingKey")>>
             ELSE IF IsSlice(value)
             THEN IF SegKind(seg) # "Index" THEN <<Failure("NotAnIndex")>>
                  ELSE IF getIndex(seg).idx >= Len(value.a)
                       THEN <<Failure("IndexOutOfRange")>>
                  ELSE Outcomes(segs, i + 1, value.a[getIndex(seg).idx + 1],
                                Append(path, seg), binds, skipNonObjects, stringForm)
             ELSE <<Failure("TypeMismatch")>>
        ELSE IF SegKind(seg) = "Invalid" THEN <<Failure("InvalidSegment")>>
        ELSE IF ~IsSlice(value) THEN <<Failure("TypeMismatch")>>
        ELSE ElemOutcomes(segs, i, value.a, 1, path, binds, skipNonObjects, stringForm)

\* the branches as the code resolves them, and as the specification words them
CodeOutcomes == Outcomes(subKeysOf(key), 1, config, <<>>, NoMatches, FALSE, FALSE)

\* index of the first failure of a sequence of outcomes, Len + 1 when none
FirstFailure(bs) ==
    IF \E i \in 1..Len(bs) : ~bs[i].ok
    THEN CHOOSE i \in 1..Len(bs) : ~bs[i].ok /\ \A j \in 1..(i - 1) : bs[j].ok
    ELSE Len(bs) + 1

AllOk(bs) == \A i \in 1..Len(bs) : bs[i].ok

\* the results are the leaves bs[1..n], in order, with their values and concrete paths
ResultsAre(bs, n) ==
    /\ Len(results) = n
    /\ \A i \in 1..n :
          /\ results[i].Value = bs[i].value
          /\ KeyOf(keyArrs, results[i]) = bs[i].path

\* the element el satisfies the predicate segment seg, as the code decides it
Satisfies(el, seg) ==
    LET p == PredicateOf(seg)
    IN  /\ IsMap(el)
        /\ p.field \in DOMAIN el.m
        /\ IsString(el.m[p.field])
        /\ (p.value = EmptyString \/ el.m[p.field].s = p.value)

\* plain navigation, a Mapping taking any segment as a key and a Sequence an index
\* below its length
RECURSIVE Navigate(_, _, _)
Navigate(segs, i, value) ==
    IF i > Len(segs) THEN [ok |-> TRUE, value |-> value]
    ELSE IF IsMap(value) /\ segs[i] \in DOMAIN value.m
         THEN Navigate(segs, i + 1, value.m[segs[i]])
    ELSE IF IsSlice(value) /\ SegKind(segs[i]) = "Index"
            /\ getIndex(segs[i]).idx < Len(value.a)
         THEN Navigate(segs, i + 1, value.a[getIndex(segs[i]).idx + 1])
    ELSE [ok |-> FALSE, value |-> NilV]

\* the numbers of matches m1, ..., mk met at the predicates along the branches of a
\* walk in which every segment resolves: one vector per way through the tree, cut
\* after a predicate without a match
RECURSIVE CountVectors(_, _, _)
CountVectors(segs, i, value) ==
    IF i > Len(segs) THEN {<<>>}
    ELSE IF SegKind(segs[i]) = "Predicate"
    THEN LET hit == {n \in 1..Len(value.a) : Satisfies(value.a[n], segs[i])}
         IN  IF hit = {} THEN {<<0>>}
             ELSE {<<Cardinality(hit)>> \o c :
                      c \in UNION {CountVectors(segs, i + 1, value.a[n]) : n \in hit}}
    ELSE CountVectors(segs, i + 1, Navigate(<<segs[i]>>, 1, value).value)

RECURSIVE Product(_)
Product(ms) == IF ms = <<>> THEN 1 ELSE Head(ms) * Product(Tail(ms))

\* the paths of a tree: every sequence of keys and indices that leads to a node
RECURSIVE Slots(_)
Slots(node) ==
    {<<>>}
    \cup (IF IsMap(node)
          THEN UNION {{<<k2>> \o q : q \in Slots(node.m[k2])} : k2 \in DOMAIN node.m}
          ELSE IF IsSlice(node)
          THEN UNION {{<<n>> \o q : q \in Slots(node.a[n])} : n \in 1..Len(node.a)}
          ELSE {})

-----------------------------------------------------------------------------
(* The claims *)

\* the slice under r of an object document, <<>> for another document
UnderR == IF IsMap(config) /\ KeyR \in DOMAIN config.m /\ IsSlice(config.m[KeyR])
          THEN config.m[KeyR].a ELSE <<>>

\* C1, as claimed: when GetAll fails because a key is absent from a Mapping on some
\* branch, it returns an error and an empty result list.
C1_MissingKeyReturnsNoResults ==
    (pc = "GetAll" /\ err = "MissingSubKey") => results = <<>>

\* C1, amended: GetAll fails with the missing-key error exactly when the first branch
\* that fails, in the order of the walk, fails on an absent key; the call then returns
\* the error together with the results of the branches that reached the leaf before
\* the failing one, and nothing of the branches after it.
C1_MissingKeyKeepsEarlierResults ==
    pc = "GetAll" =>
        LET bs == CodeOutcomes
            f == FirstFailure(bs)
        IN  /\ (f <= Len(bs) /\ bs[f].e = "MissingKey") <=> (err = "MissingSubKey")
            /\ err = "MissingSubKey" => ResultsAre(bs, f - 1)

\* an earlier branch reached the leaf, a later one misses a key
C1_Witness == pc = "GetAll" /\ err = "MissingSubKey" /\ Len(results) >= 1

\* C2, as claimed: elements of a predicate's Sequence that are no Mappings are skipped
\* without an error and the Mapping elements that satisfy the predicate still produce
\* their branches.
C2_NonObjectsAreSkipped ==
    pc = "GetAll" =>
        LET bs == Outcomes(subKeysOf(key), 1, config, <<>>, NoMatches, TRUE, FALSE)
        IN  AllOk(bs) => (err = "nil" /\ ResultsAre(bs, Len(bs)))

\* C2, amended: an element of a predicate's Sequence that is no Mapping makes GetAll
\* return an error when the walk reaches it; the elements before it have produced their
\* branches, the elements after it are not looked at.
C2_NonObjectFailsTheCall ==
    pc = "GetAll" =>
        LET bs == CodeOutcomes
            f == FirstFailure(bs)
        IN  /\ (f <= Len(bs) /\ bs[f].e = "ElemNotObject") <=> (err = "ElemNotObject")
            /\ err = "ElemNotObject" => ResultsAre(bs, f - 1)

\* a Mapping element matched and produced its branch, then a non-Mapping element
C2_Witness == pc = "GetAll" /\ err = "ElemNotObject" /\ Len(results) >= 1

\* C3, as claimed: a predicate selects exactly the elements that contain the field and
\* whose field value in string form equals the value (any value when none is given),
\* numbers and booleans included, and no field value causes an error.
C3_FieldComparedInStringForm ==
    pc = "GetAll" =>
        LET bs == Outcomes(subKeysOf(key), 1, config, <<>>, NoMatches, FALSE, TRUE)
        IN  AllOk(bs) => (err = "nil" /\ ResultsAre(bs, Len(bs)))

\* C3, amended: a predicate selects exactly the elements whose field is a string equal
\* to the value (any string when no value is given); an element whose field is present
\* and is no string makes GetAll return an error.
C3_FieldMustBeAString ==
    pc = "GetAll" =>
        LET bs == CodeOutcomes
            f == FirstFailure(bs)
        IN  /\ (f <= Len(bs) /\ bs[f].e = "FieldNotString") <=> (err = "FieldNotString")
            /\ (err = "nil") <=> AllOk(bs)
            /\ err = "nil" => ResultsAre(bs, Len(bs))

\* a string field matched, then the field of a later element is a boolean or a number
C3_Witness == pc = "GetAll" /\ err = "FieldNotString" /\ Len(results) >= 1

\* C4, as claimed: a predicate that matches no element of its Sequence is no error; the
\* branch is pruned and, when it was the only one, the result list is empty.
C4_NoMatchIsNoError ==
    pc = "GetAll" =>
        LET bs == Outcomes(subKeysOf(key), 1, config, <<>>, NoMatches, TRUE, TRUE)
        IN  bs = <<>> => (err = "nil" /\ results = <<>>)

\* C4, amended: a predicate that matches no element of a Sequence whose elements are
\* all Mappings in which the field is absent or a string (the empty Sequence included)
\* is no error; the branch is pruned, the segments after the predicate are not
\* evaluated on it, and when no branch is left the result list is empty.
C4_NoMatchAmongObjectsIsNoError ==
    pc = "GetAll" => (CodeOutcomes = <<>> => (err = "nil" /\ results = <<>>))

\* a predicate on a Sequence with elements, none of them matching, with segments after it
C4_Witness ==
    /\ pc = "GetAll"
    /\ UnderR # <<>>
    /\ Len(subKeysOf(key)) >= 3
    /\ SegKind(subKeysOf(key)[2]) = "Predicate"
    /\ CodeOutcomes = <<>>
    /\ err = "nil"

C6_MatchesAreNotShared ==
    pc \in {"GetAll", "Changed"} =>
        /\ \A i, j \in 1..Len(results) :
              (i # j /\ results[i].Matches # 0) => results[i].Matches # results[j].Matches
        /\ \A j \in 1..Len(results) :
              j # mutated => MatchesOf(matchMaps, results)[j] = matches0[j]

\* the caller changed the Matches of one of four results of a path with two predicates
C6_Witness ==
    /\ pc = "Changed"
    /\ Len(results) = 4
    /\ matchMaps[results[mutated].Matches] # matches0[mutated]

\* C7: the concrete key path of every result has one literal segment per segment of
\* the path: a Key or Index segment itself, for a Predicate segment the index [i] of an
\* element that satisfies it; the path sits in a backing array of the result's own,
\* and Get along it from the root reaches the result's value.
C7_ConcreteKeyPath ==
    pc = "GetAll" =>
        \A i \in 1..Len(results) :
            LET segs == subKeysOf(key)
                path == KeyOf(keyArrs, results[i])
            IN  /\ Len(path) = Len(segs)
                /\ \A j \in 1..Len(segs) :
                      IF SegKind(segs[j]) = "Predicate"
                      THEN /\ SegKind(path[j]) = "Index"
                           /\ Satisfies(GetWalk(SubSeq(path, 1, j), 1, config).value, segs[j])
                      ELSE path[j] = segs[j]
                /\ \A i2 \in 1..Len(results) :
                      i2 # i => results[i2].Key.ptr # results[i].Key.ptr
                /\ Get(Join(path), config) = [value |-> results[i].Value, ok |-> TRUE]

\* four results of a path of four segments whose last predicate appends in place
C7_Witness ==
    /\ pc = "GetAll"
    /\ Len(results) = 4
    /\ Len(subKeysOf(key)) = 4
    /\ SegKind(subKeysOf(key)[4]) = "Predicate"
    /\ KeyOf(keyArrs, results[1]) # KeyOf(keyArrs, results[2])

\* GetAll on a predicate-free path returns one result with the value Get finds, and
\* no result when Get finds none
GetAllAgreesWithGet ==
    (pc = "GetAll" /\ IsPredicateFree(subKeysOf(key))) =>
        IF Get(key, config).ok
        THEN /\ Len(results) = 1
             /\ results[1].Value = Get(key, config).value
             /\ err = "nil"
        ELSE results = <<>>

\* C8: on a path of Key and Index segments Get finds the value iff navigating the tree
\* never hits a missing key, an index out of range or a wrong container kind (a
\* Mapping takes the segment as a literal key, a Sequence takes an index, a scalar
\* nothing); Get then returns the node reached, and GetAll agrees with Get.
C8_GetIsNavigation ==
    /\ (pc = "Get" /\ IsPredicateFree(subKeysOf(key))) =>
          /\ getOk = Navigate(subKeysOf(key), 1, config).ok
          /\ getOk => getValue = Navigate(subKeysOf(key), 1, config).value
    /\ GetAllAgreesWithGet

\* GetAll went through a Sequence by an index and returned the one result
C8_Witness ==
    /\ pc = "GetAll"
    /\ Len(subKeysOf(key)) >= 2
    /\ IsPredicateFree(subKeysOf(key))
    /\ \E j \in 1..Len(subKeysOf(key)) :
          /\ SegKind(subKeysOf(key)[j]) = "Index"
          /\ IsSlice(Navigate(SubSeq(subKeysOf(key), 1, j - 1), 1, config).value)
    /\ Len(results) = 1

\* C9: where Set fails on a non-empty path, SetCreatingNew returns no error, and after
\* every SetCreatingNew that returned no error Get on the same path returns the new
\* value and true.
C9_SetCreatingNewRoundTrip ==
    pc = "SetCreatingNew" =>
        /\ (subKeysOf(key) # <<>> /\ Set(key, newValue, before).err # "nil") => err = "nil"
        /\ err = "nil" => Get(key, config) = [value |-> newValue, ok |-> TRUE]

\* Set fails on a path that runs into a Sequence; SetCreatingNew has succeeded on it
C9_Witness ==
    /\ pc = "SetCreatingNew"
    /\ err = "nil"
    /\ Len(subKeysOf(key)) >= 2
    /\ subKeysOf(key)[1] \in DOMAIN before.m
    /\ IsSlice(before.m[subKeysOf(key)[1]])
    /\ Set(key, newValue, before).err # "nil"

\* C10: Set on a non-empty path returns an error iff some segment does not resolve
\* (a key missing from a Mapping, a segment that is no index below the length of a
\* Sequence, a scalar reached before the path ends); the tree is then as it was, and
\* in no case has the tree a path it had not before.
C10_SetCreatesNoSlot ==
    (pc = "Set" /\ subKeysOf(key) # <<>>) =>
        /\ (err # "nil") <=> ~Navigate(subKeysOf(key), 1, before).ok
        /\ err # "nil" => config = before
        /\ Slots(config) \subseteq Slots(before)

\* the parents resolve and the terminal key is absent from the terminal Mapping
C10_Witness ==
    /\ pc = "Set"
    /\ err = "MissingSubKey"
    /\ Len(subKeysOf(key)) >= 2
    /\ LET parents == SubSeq(subKeysOf(key), 1, Len(subKeysOf(key)) - 1)
       IN  /\ Navigate(parents, 1, before).ok
           /\ IsMap(Navigate(parents, 1, before).value)

\* C11, as claimed: a key that is the empty string or that splits into no sub key is
\* rejected by every entry point: Set and SetCreatingNew return an error and leave the
\* tree unchanged, GetAll returns an error with no results, Get reports found = false.
C11_EmptyPathRejectedEverywhere ==
    subKeysOf(key) = <<>> =>
        /\ pc \in {"Set", "SetCreatingNew"} => (err # "nil" /\ config = before)
        /\ pc = "GetAll" => (err # "nil" /\ results = <<>>)
        /\ pc = "Get" => ~getOk

\* C11, amended: on a key that is the empty string or that splits into no sub key, Set
\* and SetCreatingNew return an error and leave the tree unchanged, while Get returns
\* the root with found = true and GetAll returns no error and one result whose value
\* is the root, whose concrete key path is empty and which has no bindings.
C11_EmptyPathRejectedBySettersOnly ==
    subKeysOf(key) = <<>> =>
        /\ pc \in {"Set", "SetCreatingNew"} => (err # "nil" /\ config = before)
        /\ pc = "GetAll" =>
              /\ err = "nil"
              /\ Len(results) = 1
              /\ results[1].Value = before
              /\ KeyOf(keyArrs, results[1]) = <<>>
              /\ results[1].Matches = 0
        /\ pc = "Get" => (getOk /\ getValue = before)

\* Get has returned on a key of dots only, which splits into no sub key
C11_Witness == pc = "Get" /\ key # EmptyString /\ subKeysOf(key) = <<>> /\ getOk

\* C12, as claimed: a path with a segment that contains "[" and matches neither the
\* index nor the predicate pattern makes GetAll return the invalid-segment error for
\* every tree, wherever the segment stands and whatever the earlier segments resolve to.
C12_InvalidSegmentAlwaysReported ==
    (pc = "GetAll" /\ \E i \in 1..Len(subKeysOf(key)) : SegKind(subKeysOf(key)[i]) = "Invalid")
    => err = "InvalidSubKey"

\* C12, amended: a segment is classified when the walk reaches it.  GetAll returns the
\* invalid-segment error for every tree when the invalid segment is the first one;
\* otherwise it returns it exactly when the first branch that fails, in the order of
\* the walk, fails at the invalid segment, together with the results of the branches
\* before it.  An earlier segment that does not resolve gives its own error and an
\* earlier predicate that leaves no branch gives no error.
C12_InvalidSegmentReportedWhenReached ==
    pc = "GetAll" =>
        LET bs == CodeOutcomes
            f == FirstFailure(bs)
        IN  /\ (f <= Len(bs) /\ bs[f].e = "InvalidSegment") <=> (err = "InvalidSubKey")
            /\ err = "InvalidSubKey" => ResultsAre(bs, f - 1)
            /\ (subKeysOf(key) # <<>> /\ SegKind(subKeysOf(key)[1]) = "Invalid")
                  => (err = "InvalidSubKey" /\ results = <<>>)

\* the walk went through a predicate that matched and reached an invalid segment
C12_Witness ==
    /\ pc = "GetAll"
    /\ err = "InvalidSubKey"
    /\ Len(subKeysOf(key)) >= 3
    /\ SegKind(subKeysOf(key)[2]) = "Predicate"
    /\ SegKind(subKeysOf(key)[Len(subKeysOf(key))]) = "Invalid"

\* the number an index segment [i] writes, in decimal
IndexOf(seg) == ParseDigits(SubSeq(seg, 2, Len(seg) - 1), 10)

\* the positions j of the path that hold an Index segment reached by plain navigation
\* along Key and Index segments
IndexPositions ==
    {j \in 1..Len(subKeysOf(key)) :
        /\ SegKind(subKeysOf(key)[j]) = "Index"
        /\ IsPredicateFree(SubSeq(subKeysOf(key), 1, j - 1))
        /\ Navigate(SubSeq(subKeysOf(key), 1, j - 1), 1, config).ok}

\* the node the segment at the position j is applied to
NodeAt(j) == Navigate(SubSeq(subKeysOf(key), 1, j - 1), 1, config).value

\* the segment at j resolved to target: the call ends as the walk of the segments
\* after j from target does, with the same error, the same values, and the concrete
\* paths of that walk behind the segments up to j
ContinuesFrom(target, j) ==
    LET segs == subKeysOf(key)
        rest == GetAll(Join(SubSeq(segs, j + 1, Len(segs))), target)
    IN  /\ err = rest.err
        /\ Len(results) = Len(rest.results)
        /\ \A n \in 1..Len(results) :
              /\ results[n].Value = rest.results[n].Value
              /\ KeyOf(keyArrs, results[n])
                    = SubSeq(segs, 1, j) \o KeyOf(rest.arrs, rest.results[n])

\* C13, as claimed: in GetAll an Index segment [i] resolves only against a Sequence
\* with more than i elements, yielding its i-th element; applied to a shorter
\* Sequence, a Mapping (even one with a key named [i]) or a scalar, the call returns
\* an error.
C13_IndexOnlyOnSequences ==
    pc = "GetAll" =>
        \A j \in IndexPositions :
            LET seg == subKeysOf(key)[j]
                node == NodeAt(j)
            IN  IF IsSlice(node) /\ IndexOf(seg) < Len(node.a)
                THEN ContinuesFrom(node.a[IndexOf(seg) + 1], j)
                ELSE err # "nil"

\* C13, amended: in GetAll an Index segment [i] applied to a Sequence with more than
\* i elements yields its i-th element, and applied to a Mapping that holds a key
\* named [i] it yields the value of that key; applied to a shorter Sequence, to a
\* Mapping without such a key or to a scalar, the call returns an error.
C13_IndexOnSequenceOrLiteralKey ==
    pc = "GetAll" =>
        \A j \in IndexPositions :
            LET seg == subKeysOf(key)[j]
                node == NodeAt(j)
            IN  IF IsSlice(node) /\ IndexOf(seg) < Len(node.a)
                THEN ContinuesFrom(node.a[IndexOf(seg) + 1], j)
                ELSE IF IsMap(node) /\ seg \in DOMAIN node.m
                THEN ContinuesFrom(node.m[seg], j)
                ELSE err # "nil"

\* an index segment was applied to a Mapping that holds it as a key, without an error
C13_Witness ==
    /\ pc = "GetAll"
    /\ err = "nil"
    /\ \E j \in IndexPositions : IsMap(NodeAt(j)) /\ subKeysOf(key)[j] \in DOMAIN NodeAt(j).m

\* the node at a path of Slots
RECURSIVE At(_, _)
At(node, q) ==
    IF q = <<>> THEN node
    ELSE IF IsMap(node) THEN At(node.m[Head(q)], Tail(q))
    ELSE At(node.a[Head(q)], Tail(q))

\* the first j segments of the path resolve in tree, each of them to a Mapping
MapsAlong(tree, j) ==
    \A t \in 1..j :
        LET n == Navigate(SubSeq(subKeysOf(key), 1, t), 1, tree)
        IN  n.ok /\ IsMap(n.value)

\* C14: SetCreatingNew on a path with at least one segment returns no error.  After
\* the call every proper prefix of the path resolves to a Mapping; where a prefix did
\* not resolve to a Mapping before the call (a key was missing, or held a scalar or a
\* Sequence, or lay below such a key) the Mapping is a new one that holds the next
\* segment only, what was there being lost; the last segment is a key of the last
\* Mapping and holds the new value; and every Sequence of the tree was there before
\* the call, at the same place with the same elements.
C14_SetCreatingNewNeverFails ==
    (pc = "SetCreatingNew" /\ subKeysOf(key) # <<>>) =>
        LET segs == subKeysOf(key)
            last == Len(segs)
        IN  /\ err = "nil"
            /\ MapsAlong(config, last - 1)
            /\ \A j \in 1..(last - 1) :
                  ~MapsAlong(before, j) =>
                      DOMAIN Navigate(SubSeq(segs, 1, j), 1, config).value.m = {segs[j + 1]}
            /\ LET parent == Navigate(SubSeq(segs, 1, last - 1), 1, config).value
               IN  segs[last] \in DOMAIN parent.m /\ parent.m[segs[last]] = newValue
            /\ \A q \in Slots(config) :
                  IsSlice(At(config, q)) => (q \in Slots(before) /\ At(before, q) = At(config, q))

\* a key on the way held a string, which the call replaced by a Mapping
C14_Witness ==
    /\ pc = "SetCreatingNew"
    /\ err = "nil"
    /\ Len(subKeysOf(key)) >= 2
    /\ subKeysOf(key)[1] \in DOMAIN before.m
    /\ IsString(before.m[subKeysOf(key)[1]])
    /\ IsMap(config.m[subKeysOf(key)[1]])

\* the positions of the Predicate segments of the path
PredicatePositions ==
    {j \in 1..Len(subKeysOf(key)) : SegKind(subKeysOf(key)[j]) = "Predicate"}

\* the element the result n chose at the segment j: the node at the first j segments
\* of its concrete key path
ChosenAt(n, j) == Navigate(SubSeq(KeyOf(keyArrs, results[n]), 1, j), 1, config).value

\* C15: the bindings of every result of GetAll hold, for each Predicate segment of the
\* path, the capture name (the name when one is given, else the field) with the string
\* value of the field in the element chosen at that segment on the result's branch,
\* and nothing else; of two Predicate segments with the same capture name the later
\* one's value is kept.
C15_BindingsOfEveryPredicate ==
    pc = "GetAll" =>
        \A n \in 1..Len(results) :
            LET segs == subKeysOf(key)
                binds == matches0[n]
            IN  /\ DOMAIN binds = {PredicateOf(segs[j]).capture : j \in PredicatePositions}
                /\ \A j \in PredicatePositions :
                      LET p == PredicateOf(segs[j])
                      IN  (\A j2 \in PredicatePositions :
                              j2 > j => PredicateOf(segs[j2]).capture # p.capture)
                          => /\ IsString(ChosenAt(n, j).m[p.field])
                             /\ binds[p.capture] = ChosenAt(n, j).m[p.field].s

\* two predicates with the same capture name chose elements with different values of
\* the field
C15_Witness ==
    /\ pc = "GetAll"
    /\ \E n \in 1..Len(results) :
          \E j, j2 \in PredicatePositions :
              /\ j < j2
              /\ PredicateOf(subKeysOf(key)[j]).capture = PredicateOf(subKeysOf(key)[j2]).capture
              /\ ChosenAt(n, j).m[PredicateOf(subKeysOf(key)[j]).field]
                    # ChosenAt(n, j2).m[PredicateOf(subKeysOf(key)[j2]).field]

\* the segment that addresses the element n (from 1) of a Sequence
IndexSeg(n) == <<"[">> \o castToString(n - 1) \o <<"]">>

\* the place a path leads to in a tree: the segments, a key of a Mapping or the index
\* of a Sequence each, up to the node where the walk ends or stops, whether it went
\* through the whole path (ok), and whether it stopped on a key missing from a Mapping
RECURSIVE Walked(_, _, _, _)
Walked(segs, i, node, pos) ==
    IF i > Len(segs) THEN [ok |-> TRUE, pos |-> pos, missing |-> FALSE]
    ELSE IF IsMap(node)
    THEN IF segs[i] \in DOMAIN node.m
         THEN Walked(segs, i + 1, node.m[segs[i]], Append(pos, segs[i]))
         ELSE [ok |-> FALSE, pos |-> pos, missing |-> TRUE]
    ELSE IF IsSlice(node) /\ SegKind(segs[i]) = "Index" /\ IndexOf(segs[i]) < Len(node.a)
    THEN Walked(segs, i + 1, node.a[IndexOf(segs[i]) + 1],
                Append(pos, IndexSeg(IndexOf(segs[i]) + 1)))
    ELSE [ok |-> FALSE, pos |-> pos, missing |-> FALSE]

IsPrefix(p, q) == Len(p) <= Len(q) /\ \A i \in 1..Len(p) : p[i] = q[i]

\* the paths of a tree, as segments
RECURSIVE SlotPaths(_)
SlotPaths(node) ==
    {<<>>}
    \cup (IF IsMap(node)
          THEN UNION {{<<k2>> \o q : q \in SlotPaths(node.m[k2])} : k2 \in DOMAIN node.m}
          ELSE IF IsSlice(node)
          THEN UNION {{<<IndexSeg(n)>> \o q : q \in SlotPaths(node.a[n])} : n \in 1..Len(node.a)}
          ELSE {})

\* the paths Q: every path of the tree, and each with one more segment
Probes(tree) ==
    {q \o e : q \in SlotPaths(tree), e \in {<<>>} \cup {<<x>> : x \in {KeyA, KeyB, Idx0, Idx1}}}

\* node without what it holds at the place rel below it
RECURSIVE Without(_, _)
Without(node, rel) ==
    IF rel = <<>> THEN NilV
    ELSE IF IsMap(node)
    THEN IF Head(rel) \in DOMAIN node.m
         THEN MapV([node.m EXCEPT ![Head(rel)] = Without(node.m[Head(rel)], Tail(rel))])
         ELSE node
    ELSE IF IsSlice(node) /\ SegKind(Head(rel)) = "Index" /\ IndexOf(Head(rel)) < Len(node.a)
    THEN SliceV([node.a EXCEPT ![IndexOf(Head(rel)) + 1] =
                    Without(node.a[IndexOf(Head(rel)) + 1], Tail(rel))])
    ELSE node

\* C16: on a path with at least one segment Set returns no error iff Get found a
\* value on that path before the call.  After a Set without an error Get on the path
\* returns the new value and true, and Get on every path that does not pass through
\* the slot the path addresses returns what it returned before: the same found, and
\* the same value, which differs at most in the slot when it is a node above it.
C16_SetChangesOneSlot ==
    (pc = "Set" /\ subKeysOf(key) # <<>>) =>
        /\ (err = "nil") <=> Get(key, before).ok
        /\ err = "nil" =>
              /\ Get(key, config) = [value |-> newValue, ok |-> TRUE]
              /\ LET slot == Walked(subKeysOf(key), 1, before, <<>>).pos
                 IN  \A q \in Probes(before) :
                        LET w == Walked(q, 1, before, <<>>)
                            g0 == Get(Join(q), before)
                            g1 == Get(Join(q), config)
                        IN  ~IsPrefix(slot, w.pos) =>
                               /\ g1.ok = g0.ok
                               /\ IF ~w.missing /\ IsPrefix(w.pos, slot)
                                  THEN Without(g1.value, Drop(slot, Len(w.pos)))
                                       = Without(g0.value, Drop(slot, Len(w.pos)))
                                  ELSE g1.value = g0.value

\* Set has replaced an element of a Sequence that has another element
C16_Witness ==
    /\ pc = "Set"
    /\ err = "nil"
    /\ config # before
    /\ Len(subKeysOf(key)) >= 2
    /\ LET parent == Navigate(SubSeq(subKeysOf(key), 1, Len(subKeysOf(key)) - 1), 1, before).value
       IN  IsSlice(parent) /\ Len(parent.a) >= 2

\* C17: SetCreatingNew keeps what is off the path.  The root, and every Mapping an
\* intermediate key of the path held before the call (all the keys above it holding
\* Mappings too), is still there after the call with the same keys and the next
\* segment of the path, and each of its keys other than that segment has the value it
\* had; on a path without segments the call changes nothing.
C17_SetCreatingNewKeepsOffPath ==
    pc = "SetCreatingNew" =>
        LET segs == subKeysOf(key)
        IN  IF segs = <<>> THEN config = before
            ELSE \A j \in 0..(Len(segs) - 1) :
                    MapsAlong(before, j) =>
                        LET old == Navigate(SubSeq(segs, 1, j), 1, before).value
                            new == Navigate(SubSeq(segs, 1, j), 1, config).value
                        IN  /\ IsMap(new)
                            /\ DOMAIN new.m = DOMAIN old.m \cup {segs[j + 1]}
                            /\ \A k2 \in DOMAIN old.m \ {segs[j + 1]} : new.m[k2] = old.m[k2]

\* the first key of the path held a Mapping with a key that is not the next segment
C17_Witness ==
    /\ pc = "SetCreatingNew"
    /\ err = "nil"
    /\ Len(subKeysOf(key)) >= 2
    /\ MapsAlong(before, 1)
    /\ config # before
    /\ DOMAIN before.m[subKeysOf(key)[1]].m \ {subKeysOf(key)[2]} # {}

====
